---- MODULE Spec2Model ----
(***************************************************************************)
(* U-25 progressive-passing analyzer (src/app.py): the ingestion, the      *)
(* normalisation, the league lookup, the cohort filter/ranker and the      *)
(* combination of the sources in main.                                     *)
(*                                                                         *)
(* Text.  A Python str is a sequence of atoms; an atom is a run of         *)
(* characters that the program never looks inside ("Player", "Prg", ",",   *)
(* " ", one digit ...).  Substring, prefix, strip, lower, the CSV split    *)
(* and the numeric parse are computed on the atoms.  The input texts are   *)
(* written so that every token the code searches for is a whole number of  *)
(* atoms.                                                                  *)
(*                                                                         *)
(* Missing values.  NaN in a text (object) column is the one-atom text     *)
(* <<"NaN">> (a cell spelled NaN is read as missing by read_csv as well);  *)
(* NaN in a numeric column is NumNaN.  Number texts are unsigned digit     *)
(* strings, so no parsed number is negative.                               *)
(***************************************************************************)
EXTENDS Integers, Sequences, FiniteSets, TLC

VARIABLES
    op,          \* the operation that acted last ("none" at the start)
    squad_name,  \* argument of infer_league_from_squad
    league,      \* its return value
    df,          \* the table a stage returned / the table handed to the filter
    call,        \* arguments of the last filter_and_analyze call
    result,      \* what the last filter_and_analyze call returned
    signal,      \* what the last stage reported (st.error, st.warning, a raise)
    prev,        \* the filter_and_analyze call before the last one
    file,        \* the CSV at big5_data.csv, or the uploaded CSV
    other,       \* the CSV at data/big5_data.csv
    trace,       \* how the loader got its table: the lines it read, the
                 \* header_line_idx it found, the table before the clean-up
    pc,              \* where main() is: "idle" outside main, "upload",
                     \* "process", then "combined", "done" or "crashed"
    sidebar,         \* use_preloaded_data, selected_league_filter, min_90s, max_age
    uploaded,        \* the file_uploader widgets the user filled, in the
                     \* order they were filled: slot and lines
    uploaded_files,  \* main's dict, in insertion order
    cursor,          \* the entry of uploaded_files the loop is at
    heap,            \* the DataFrame objects; a reference is a position
    all_data,        \* main's list of references to filtered tables
    combined_df,     \* reference to the combined table, 0 before it exists
    sources          \* per entry processed: the reference to its normalized
                     \* table, that table as it was when filter_and_analyze
                     \* was called, and what filter_and_analyze returned

mainVars ==
    <<pc, sidebar, uploaded, uploaded_files, cursor, heap, all_data, combined_df, sources>>

vars ==
    <<op, squad_name, league, df, call, result, signal, prev, file, other, trace,
      pc, sidebar, uploaded, uploaded_files, cursor, heap, all_data, combined_df, sources>>

NoSidebar ==
    [use_preloaded_data |-> TRUE, selected_league_filter |-> <<"All Leagues">>,
     min_90s |-> 0, max_age |-> 0]

\* main() is not running
MainIdle ==
    /\ pc = "idle"
    /\ sidebar = NoSidebar
    /\ uploaded = <<>>
    /\ uploaded_files = <<>>
    /\ cursor = 0
    /\ heap = <<>>
    /\ all_data = <<>>
    /\ combined_df = 0
    /\ sources = <<>>

(***************************************************************************)
(* Text helpers                                                            *)
(***************************************************************************)
NaN == <<"NaN">>

isna(v) == v = NaN

IsSpace(a) == a \in {" ", "\t"}

\* str.lstrip / str.rstrip / str.strip
RECURSIVE LStrip(_)
LStrip(s) ==
    IF s # <<>> /\ IsSpace(Head(s)) THEN LStrip(Tail(s)) ELSE s

RECURSIVE RStrip(_)
RStrip(s) ==
    IF s # <<>> /\ IsSpace(s[Len(s)]) THEN RStrip(SubSeq(s, 1, Len(s) - 1)) ELSE s

StripLeftOnly(s) == LStrip(s)

Strip(s) == RStrip(LStrip(s))

\* s.startswith(p)
StartsWith(s, p) ==
    /\ Len(p) <= Len(s)
    /\ SubSeq(s, 1, Len(p)) = p

\* p in s  (substring)
Contains(s, p) ==
    \E i \in 1..(Len(s) - Len(p) + 1) : SubSeq(s, i, i + Len(p) - 1) = p

(***************************************************************************)
(* Tables (pandas DataFrame): the column names in order, the dtype of each *)
(* column, and the rows in order; a row carries its index label idx and    *)
(* one value per column.                                                   *)
(***************************************************************************)
NumNaN == -1

\* pd.DataFrame()
EmptyFrame == [columns |-> <<>>, dtypes |-> <<>>, rows |-> <<>>]

\* df.empty: some axis has length 0
IsEmpty(t) == Len(t.columns) = 0 \/ Len(t.rows) = 0

\* c in df.columns
HasCol(t, c) == \E j \in 1..Len(t.columns) : t.columns[j] = c

ColPos(t, c) ==
    CHOOSE j \in 1..Len(t.columns) :
        /\ t.columns[j] = c
        /\ \A k \in 1..(j - 1) : t.columns[k] # c

\* df[c] at row r
Cell(t, r, c) == r.v[ColPos(t, c)]

ColAge == <<"Age">>
Col90s == <<"90s">>
ColPos_ == <<"Pos">>
ColPrgDist == <<"Prg", "Dist">>
ColPlayer == <<"Player">>
ColRank == <<"Rank">>

\* comparisons of a float64 column with a number: NaN compares False
NumLe(x, y) == x # NumNaN /\ x <= y

NumLt(x, y) == x # NumNaN /\ x < y

NumGe(x, y) == x # NumNaN /\ x >= y

NumGt(x, y) == x # NumNaN /\ x > y

RECURSIVE KeepRows(_, _)
KeepRows(rows, keep) ==
    IF rows = <<>> THEN <<>>
    ELSE IF Head(rows).idx \in keep
         THEN <<Head(rows)>> \o KeepRows(Tail(rows), keep)
         ELSE KeepRows(Tail(rows), keep)

\* df[mask]: the rows whose mask is True, in order, labels kept
Select(t, keep) == [t EXCEPT !.rows = KeepRows(t.rows, keep)]

(***************************************************************************)
(* Cohort filter / ranker: filter_and_analyze                              *)
(***************************************************************************)
\* df['Age'] <= max_age
AgeMaskStrict(age, max_age) == NumLt(age, max_age)

AgeMaskAtLeast(age, max_age) == NumGe(age, max_age)

AgeMask(age, max_age) == NumLe(age, max_age)

\* df['90s'] >= min_90s
NinetiesMask(n, min_90s) == NumGe(n, min_90s)

\* df['Pos'].str.startswith('MF', na=False)
PosMaskAnywhere(pos) == ~isna(pos) /\ Contains(pos, <<"MF">>)

PosMask(pos) == ~isna(pos) /\ StartsWith(pos, <<"MF">>)

\* df['PrgDist'].notna() & (df['PrgDist'] > 0)
PrgDistMask(d) == d # NumNaN /\ NumGt(d, 0)

\* .str on a column that is not of object dtype raises AttributeError
StrAccessorRaises(t, c) == t.dtypes[ColPos(t, c)] # "object"

\* the index labels of the rows whose mask is True
FilterMask(t, min_90s, max_age) ==
    { t.rows[i].idx : i \in
        { i \in 1..Len(t.rows) :
            /\ AgeMask(Cell(t, t.rows[i], ColAge), max_age)
            /\ NinetiesMask(Cell(t, t.rows[i], Col90s), min_90s)
            /\ PosMask(Cell(t, t.rows[i], ColPos_))
            /\ PrgDistMask(Cell(t, t.rows[i], ColPrgDist)) } }

Perms(n) ==
    { p \in [1..n -> 1..n] : \A i, j \in 1..n : i # j => p[i] # p[j] }

Reorder(t, p) == [t EXCEPT !.rows = [i \in 1..Len(t.rows) |-> t.rows[p[i]]]]

\* The orders sort_values(c, ascending=False) can return.  The call names no
\* kind, so pandas sorts with kind='quicksort', which is not stable: rows
\* with equal keys come out in any order.
DescendingOrders(t, c) ==
    { p \in Perms(Len(t.rows)) :
        \A i \in 1..(Len(t.rows) - 1) :
            Cell(t, t.rows[p[i]], c) >= Cell(t, t.rows[p[i + 1]], c) }

AscendingOrders(t, c) ==
    { p \in Perms(Len(t.rows)) :
        \A i \in 1..(Len(t.rows) - 1) :
            Cell(t, t.rows[p[i]], c) <= Cell(t, t.rows[p[i + 1]], c) }

SortOrders(t, c) == DescendingOrders(t, c)

\* filtered_df.sort_values('PrgDist', ascending=False): every table it can be
sort_values(t, c) == { Reorder(t, p) : p \in SortOrders(t, c) }

RankFromZero(i) == i - 1

\* range(1, len(filtered_df) + 1), by position
RankAt(i) == i

\* filtered_df['Rank'] = range(1, len(filtered_df) + 1)
AddRank(t) ==
    [columns |-> Append(t.columns, ColRank),
     dtypes  |-> Append(t.dtypes, "int64"),
     rows    |-> [i \in 1..Len(t.rows) |->
                    [idx |-> t.rows[i].idx, v |-> Append(t.rows[i].v, RankAt(i))]]]

Returns(t, s) == [result |-> t, signal |-> s]

\* Every outcome of filter_and_analyze(df, min_90s, max_age): the returned
\* table and what was reported on the way.  A raise returns nothing; it is
\* recorded with the empty table.
filter_and_analyze(t, min_90s, max_age) ==
    IF IsEmpty(t) THEN { Returns(EmptyFrame, "none") }
    ELSE IF ~HasCol(t, ColAge)
        THEN { Returns(EmptyFrame, "error: Age column not found in dataset") }
    ELSE IF ~HasCol(t, Col90s)
        THEN { Returns(EmptyFrame, "error: 90s column not found in dataset") }
    ELSE IF ~HasCol(t, ColPos_)
        THEN { Returns(EmptyFrame, "error: Position column not found in dataset") }
    ELSE IF ~HasCol(t, ColPrgDist)
        THEN { Returns(EmptyFrame,
                       "error: Progressive Distance column not found in dataset") }
    ELSE IF StrAccessorRaises(t, ColPos_)
        THEN { Returns(EmptyFrame, "raise: AttributeError") }
    ELSE LET filtered_df == Select(t, FilterMask(t, min_90s, max_age)) IN
         IF IsEmpty(filtered_df)
         THEN { Returns(EmptyFrame, "warning: No players match the criteria") }
         ELSE { Returns(AddRank(sorted), "none") :
                    sorted \in sort_values(filtered_df, ColPrgDist) }

NoCall == [min_90s |-> 0, max_age |-> 0]

NoPrev == [min_90s |-> 0, max_age |-> 0, result |-> EmptyFrame, signal |-> "(no call)"]

(***************************************************************************)
(* League classifier: infer_league_from_squad                              *)
(***************************************************************************)
pl_teams ==
    { <<"Arsenal">>, <<"Chelsea">>, <<"Liverpool">>, <<"Manchester", " ", "City">>,
      <<"Manchester", " ", "Utd">>, <<"Tottenham">>, <<"Newcastle", " ", "Utd">>,
      <<"Brighton">>, <<"Aston", " ", "Villa">>, <<"West", " ", "Ham">>,
      <<"Crystal", " ", "Palace">>, <<"Fulham">>, <<"Wolves">>, <<"Everton">>,
      <<"Brentford">>, <<"Nott'ham", " ", "Forest">>, <<"Sheffield", " ", "Utd">>,
      <<"Burnley">>, <<"Luton", " ", "Town">>, <<"Bournemouth">> }

laliga_teams ==
    { <<"Real", " ", "Madrid">>, <<"Barcelona">>, <<"Atlético", " ", "Madrid">>,
      <<"Sevilla">>, <<"Real", " ", "Sociedad">>, <<"Betis">>, <<"Villarreal">>,
      <<"Valencia">>, <<"Athletic", " ", "Club">>, <<"Espanyol">>, <<"Getafe">>,
      <<"Osasuna">>, <<"Celta", " ", "Vigo">>, <<"Mallorca">>, <<"Cádiz">> }

bundesliga_teams ==
    { <<"Bayern", " ", "Munich">>, <<"Dortmund">>, <<"RB", " ", "Leipzig">>,
      <<"Union", " ", "Berlin">>, <<"Freiburg">>, <<"Bayer", " ", "Leverkusen">>,
      <<"Eintracht", " ", "Frankfurt">>, <<"Wolfsburg">>, <<"Mainz", " ", "05">>,
      <<"Borussia", " ", "Mönchengladbach">>, <<"Köln">>, <<"Augsburg">>,
      <<"Werder", " ", "Bremen">>, <<"Schalke", " ", "04">>, <<"Hoffenheim">>,
      <<"VfB", " ", "Stuttgart">>, <<"Hertha", " ", "BSC">> }

seria_teams ==
    { <<"Juventus">>, <<"Inter">>, <<"AC", " ", "Milan">>, <<"Napoli">>, <<"Lazio">>,
      <<"Roma">>, <<"Atalanta">>, <<"Fiorentina">>, <<"Torino">>, <<"Sassuolo">>,
      <<"Udinese">>, <<"Bologna">>, <<"Empoli">>, <<"Monza">>, <<"Lecce">>,
      <<"Cagliari">>, <<"Genoa">>, <<"Frosinone">>, <<"Salernitana">>, <<"Verona">> }

ligue1_teams ==
    { <<"Paris", " ", "S-G">>, <<"Marseille">>, <<"Monaco">>, <<"Lille">>,
      <<"Rennes">>, <<"Nice">>, <<"Lyon">>, <<"Montpellier">>, <<"Lens">>,
      <<"Strasbourg">>, <<"Nantes">>, <<"Reims">>, <<"Toulouse">>, <<"Lorient">>,
      <<"Le", " ", "Havre">>, <<"Metz">>, <<"Brest">>, <<"Clermont", " ", "Foot">> }

\* squad = str(squad_name).strip()
SquadKey(name) == Strip(name)

infer_league_from_squad(name) ==
    IF isna(name) THEN <<"Unknown">>
    ELSE LET squad == SquadKey(name) IN
         IF squad \in pl_teams THEN <<"Premier", " ", "League">>
         ELSE IF squad \in laliga_teams THEN <<"La", " ", "Liga">>
         ELSE IF squad \in bundesliga_teams THEN <<"Bundesliga">>
         ELSE IF squad \in seria_teams THEN <<"Serie", " ", "A">>
         ELSE IF squad \in ligue1_teams THEN <<"Ligue", " ", "1">>
         ELSE <<"Unknown">>

(***************************************************************************)
(* CSV text: a file is a sequence of lines, a line a text whose "," atoms  *)
(* separate the fields and whose "\"" atoms quote them                     *)
(***************************************************************************)
\* one line -> its fields (a comma inside quotes does not split)
RECURSIVE SplitFrom(_, _, _, _)
SplitFrom(done, cur, quoted, rest) ==
    IF rest = <<>> THEN Append(done, cur)
    ELSE IF Head(rest) = "\"" THEN SplitFrom(done, cur, ~quoted, Tail(rest))
    ELSE IF Head(rest) = "," /\ ~quoted
         THEN SplitFrom(Append(done, cur), <<>>, FALSE, Tail(rest))
    ELSE SplitFrom(done, Append(cur, Head(rest)), quoted, Tail(rest))

SplitCsv(line) == SplitFrom(<<>>, <<>>, FALSE, line)

\* read_csv reads an empty field, and a field spelled NaN, as missing
ParseCell(field) == IF field = <<>> \/ field = NaN THEN NaN ELSE field

DigitAtoms == <<"0", "1", "2", "3", "4", "5", "6", "7", "8", "9">>

IsDigit(a) == \E d \in 1..10 : DigitAtoms[d] = a

DigitVal(a) == (CHOOSE d \in 1..10 : DigitAtoms[d] = a) - 1

IsNumberText(x) == x # <<>> /\ \A i \in 1..Len(x) : IsDigit(x[i])

RECURSIVE NumVal(_)
NumVal(x) ==
    IF x = <<>> THEN 0
    ELSE 10 * NumVal(SubSeq(x, 1, Len(x) - 1)) + DigitVal(x[Len(x)])

\* pd.to_numeric(value, errors='coerce')
to_numeric(x) == IF IsNumberText(x) THEN NumVal(x) ELSE NumNaN

\* the lines read_csv tokenizes: blank lines are skipped
NonBlank(lines) == SelectSeq(lines, LAMBDA l : l # <<>>)

PadTo(fields, w) == fields \o [k \in 1..(w - Len(fields)) |-> <<>>]

Max(a, b) == IF a >= b THEN a ELSE b

Min(a, b) == IF a <= b THEN a ELSE b

\* the dtype read_csv infers for the cells of one column
InferDtype(cells) ==
    IF \E i \in 1..Len(cells) : ~isna(cells[i]) /\ ~IsNumberText(cells[i]) THEN "object"
    ELSE IF \E i \in 1..Len(cells) : isna(cells[i]) THEN "float64"
    ELSE IF cells = <<>> THEN "object"
    ELSE "int64"

\* a header field without a name
Unnamed(j) == <<"Unnamed: ", DigitAtoms[j]>>

\* the integer label of column j of a table read with header=None
IntLabel(j) == <<"(int)", DigitAtoms[j]>>

\* isinstance(col, str): not NaN, not an integer label
IsStrName(c) == c # NaN /\ c[1] # "(int)"

Raised == [raised |-> TRUE, frame |-> EmptyFrame]

Parsed(t) == [raised |-> FALSE, frame |-> t]

\* The table of the tokenized lines `fields` (fields[1] the first data
\* line) under the column names `names`; the width is that of the names or
\* of the first data line, whichever is larger; the fields beyond the names
\* lead the row as its index, shorter lines are padded with missing values.
FrameOf(names, fields, w) ==
    LET lead   == w - Len(names)
        padded == [i \in 1..Len(fields) |-> PadTo(fields[i], w)]
        cells  == [i \in 1..Len(fields) |->
                     [j \in 1..Len(names) |-> ParseCell(padded[i][lead + j])]]
    IN  [columns |-> names,
         dtypes  |-> [j \in 1..Len(names) |->
                        InferDtype([i \in 1..Len(fields) |-> cells[i][j]])],
         rows    |-> [i \in 1..Len(fields) |-> [idx |-> i - 1, v |-> cells[i]]]]

\* a line after the first data line with more fields than the width is a
\* ParserError ("Expected w fields, saw n")
TooWide(fields, w) == \E i \in 2..Len(fields) : Len(fields[i]) > w

\* pd.read_csv(lines): the first non-blank line is the header
read_csv(lines) ==
    LET nb     == NonBlank(lines)
        header == SplitCsv(nb[1])
        names  == [j \in 1..Len(header) |->
                     IF header[j] = <<>> THEN Unnamed(j) ELSE header[j]]
        fields == [i \in 1..(Len(nb) - 1) |-> SplitCsv(nb[i + 1])]
        w      == IF fields = <<>> THEN Len(names) ELSE Max(Len(names), Len(fields[1]))
    IN  IF nb = <<>> THEN Raised
        ELSE IF TooWide(fields, w) THEN Raised
        ELSE Parsed(FrameOf(names, fields, w))

\* pd.read_csv(lines, header=None): every non-blank line is a row, the first
\* one sets the width
read_csv_no_header(lines) ==
    LET nb     == NonBlank(lines)
        fields == [i \in 1..Len(nb) |-> SplitCsv(nb[i])]
        w      == Len(fields[1])
    IN  IF nb = <<>> THEN Raised
        ELSE IF TooWide(fields, w) THEN Raised
        ELSE Parsed(FrameOf([j \in 1..w |-> IntLabel(j)], fields, w))

(***************************************************************************)
(* Header location                                                         *)
(***************************************************************************)
None == -1

TokPlayer == <<"Player">>
TokAge == <<"Age">>
TokPos == <<"Pos">>
Tok90s == <<"90s">>
TokPrgDist == <<"Prg", "Dist">>

\* 'Player' in line and 'Age' in line and 'Pos' in line
PreloadedTokens == {TokPlayer, TokAge, TokPos}

\* ... and '90s' in line and 'PrgDist' in line
UploadTokens == {TokPlayer, TokAge, TokPos, Tok90s, TokPrgDist}

HasTokens(line, tokens) == \A t \in tokens : Contains(line, t)

\* for i, line in enumerate(lines): if <tokens in line>: header_line_idx = i; break
RECURSIVE ScanFrom(_, _, _)
ScanFrom(lines, i, tokens) ==
    IF i >= Len(lines) THEN None
    ELSE IF HasTokens(lines[i + 1], tokens) THEN i
    ELSE ScanFrom(lines, i + 1, tokens)

RECURSIVE ScanLast(_, _, _)
ScanLast(lines, i, tokens) ==
    IF i < 0 THEN None
    ELSE IF HasTokens(lines[i + 1], tokens) THEN i
    ELSE ScanLast(lines, i - 1, tokens)

FindHeaderLast(lines, tokens) == ScanLast(lines, Len(lines) - 1, tokens)

FindHeader(lines, tokens) == ScanFrom(lines, 0, tokens)

\* lines[header_line_idx:]  /  skiprows=header_line_idx
FromLine(lines, i) == SubSeq(lines, i + 1, Len(lines))

(***************************************************************************)
(* Column normalisation                                                    *)
(***************************************************************************)
ColSquad == <<"Squad">>
ColComp == <<"Comp">>
ColLeague == <<"League">>
ColPrgP == <<"Prg", "P">>

\* str.lower() of the atoms that column names are written with
LowerAtom(a) ==
    CASE a = "Player" -> "player"
      [] a = "Age" -> "age"
      [] a = "Pos" -> "pos"
      [] a = "Squad" -> "squad"
      [] a = "Comp" -> "comp"
      [] a = "Nation" -> "nation"
      [] a = "Prg" -> "prg"
      [] a = "PRG" -> "prg"
      [] a = "Prog" -> "prog"
      [] a = "Dist" -> "dist"
      [] a = "Tot" -> "tot"
      [] a = "P" -> "p"
      [] a = "KP" -> "kp"
      [] a = "Unnamed: " -> "unnamed: "
      [] OTHER -> a

Lower(x) == [i \in 1..Len(x) |-> LowerAtom(x[i])]

\* df[c] as the list of its values
Column(t, c) == [i \in 1..Len(t.rows) |-> Cell(t, t.rows[i], c)]

\* df[c] = values: in place when the column exists, else a new last column
SetColumn(t, c, values, dtype) ==
    IF HasCol(t, c)
    THEN [columns |-> t.columns,
          dtypes  |-> [t.dtypes EXCEPT ![ColPos(t, c)] = dtype],
          rows    |-> [i \in 1..Len(t.rows) |->
                         [t.rows[i] EXCEPT !.v[ColPos(t, c)] = values[i]]]]
    ELSE [columns |-> Append(t.columns, c),
          dtypes  |-> Append(t.dtypes, dtype),
          rows    |-> [i \in 1..Len(t.rows) |->
                         [t.rows[i] EXCEPT !.v = Append(t.rows[i].v, values[i])]]]

\* df = df[df['Player'] != name]
DropPlayerEquals(t, name) ==
    Select(t, { t.rows[i].idx : i \in { i \in 1..Len(t.rows) :
                                          Cell(t, t.rows[i], ColPlayer) # name } })

\* df = df[df['Player'].notna()]
DropPlayerNa(t) ==
    Select(t, { t.rows[i].idx : i \in { i \in 1..Len(t.rows) :
                                          ~isna(Cell(t, t.rows[i], ColPlayer)) } })

\* the same with the rows that fail the coercion discarded
RECURSIVE CoerceColumnsDropping(_, _)
CoerceColumnsDropping(t, cols) ==
    IF cols = <<>> THEN t
    ELSE CoerceColumnsDropping(
            IF HasCol(t, Head(cols))
            THEN LET kept == Select(t, { t.rows[i].idx : i \in { i \in 1..Len(t.rows) :
                                 to_numeric(Cell(t, t.rows[i], Head(cols))) # NumNaN } })
                 IN  SetColumn(kept, Head(cols),
                               [i \in 1..Len(kept.rows) |->
                                  to_numeric(Cell(kept, kept.rows[i], Head(cols)))],
                               "float64")
            ELSE t,
            Tail(cols))

\* for col in numeric_cols: if col in df.columns: df[col] = pd.to_numeric(...)
RECURSIVE CoerceColumns(_, _)
CoerceColumns(t, cols) ==
    IF cols = <<>> THEN t
    ELSE CoerceColumns(
            IF HasCol(t, Head(cols))
            THEN SetColumn(t, Head(cols),
                           [i \in 1..Len(t.rows) |-> to_numeric(Cell(t, t.rows[i], Head(cols)))],
                           "float64")
            ELSE t,
            Tail(cols))

IsPrgName(c) == Contains(Lower(c), <<"prg">>) \/ Contains(Lower(c), <<"prog">>)

\* [col for col in df.columns if 'prg' in col.lower() or 'prog' in col.lower()]
prgdist_candidates(t) == SelectSeq(t.columns, IsPrgName)

\* col.lower() raises AttributeError on a column name that is not a str
LowerRaises(t) == \E j \in 1..Len(t.columns) : ~IsStrName(t.columns[j])

\* the same with the Squad column consulted first
WithLeagueSquadFirst(t) ==
    IF HasCol(t, ColSquad)
    THEN SetColumn(t, ColLeague,
                   [i \in 1..Len(t.rows) |->
                      infer_league_from_squad(Cell(t, t.rows[i], ColSquad))],
                   "object")
    ELSE IF HasCol(t, ColComp)
    THEN SetColumn(t, ColLeague, Column(t, ColComp), t.dtypes[ColPos(t, ColComp)])
    ELSE SetColumn(t, ColLeague, [i \in 1..Len(t.rows) |-> <<"Unknown">>], "object")

\* the League column both loaders add
WithLeague(t) ==
    IF HasCol(t, ColComp)
    THEN SetColumn(t, ColLeague, Column(t, ColComp), t.dtypes[ColPos(t, ColComp)])
    ELSE IF HasCol(t, ColSquad)
    THEN SetColumn(t, ColLeague,
                   [i \in 1..Len(t.rows) |->
                      infer_league_from_squad(Cell(t, t.rows[i], ColSquad))],
                   "object")
    ELSE SetColumn(t, ColLeague, [i \in 1..Len(t.rows) |-> <<"Unknown">>], "object")

(***************************************************************************)
(* load_preloaded_data                                                     *)
(***************************************************************************)
NoFile == [exists |-> FALSE, lines |-> <<>>]

File(lines) == [exists |-> TRUE, lines |-> lines]

\* 'Player' in row_values and 'Age' in row_values, row_values the cells of
\* row idx as str
IsHeaderRow(row) ==
    /\ \E j \in 1..Len(row.v) : row.v[j] = <<"Player">>
    /\ \E j \in 1..Len(row.v) : row.v[j] = <<"Age">>

\* for idx in range(min(10, len(df))): the first idx whose row is a header row
RECURSIVE FindHeaderRow(_, _)
FindHeaderRow(t, idx) ==
    IF idx >= Min(10, Len(t.rows)) THEN None
    ELSE IF IsHeaderRow(t.rows[idx + 1]) THEN idx
    ELSE FindHeaderRow(t, idx + 1)

\* df.columns = df.iloc[idx]; df = df.iloc[idx+1:].reset_index(drop=True)
Promote(t, idx) ==
    LET rest == SubSeq(t.rows, idx + 2, Len(t.rows)) IN
    [columns |-> t.rows[idx + 1].v,
     dtypes  |-> t.dtypes,
     rows    |-> [i \in 1..Len(rest) |-> [idx |-> i - 1, v |-> rest[i].v]]]

\* the loop variables after the body ran for one path: df (isNone when it
\* is still None), whether the loop breaks, and how the table was obtained
Attempt(isNone, frame, done, idx, how, src) ==
    [isNone |-> isNone, frame |-> frame, done |-> done, header_line_idx |-> idx,
     how |-> how, src |-> src]

NoAttempt == Attempt(TRUE, EmptyFrame, FALSE, None, "none", <<>>)

\* the body of `for path in possible_paths` for one path; `before` is the
\* state left by the paths tried earlier
TryPath(f, before) ==
    IF ~f.exists THEN before
    ELSE LET header_line_idx == FindHeader(f.lines, PreloadedTokens) IN
         IF header_line_idx # None
         THEN LET r == read_csv(FromLine(f.lines, header_line_idx)) IN
              IF r.raised THEN before
              ELSE Attempt(FALSE, r.frame, TRUE, header_line_idx, "header", f.lines)
         ELSE LET r == read_csv_no_header(f.lines) IN
              IF r.raised THEN before
              ELSE LET idx == FindHeaderRow(r.frame, 0) IN
                   IF idx # None
                   THEN Attempt(FALSE, Promote(r.frame, idx), TRUE, None, "promoted", f.lines)
                   ELSE \* for ... else: continue, with df left assigned
                        Attempt(FALSE, r.frame, FALSE, None, "unrecovered", f.lines)

RECURSIVE TryPaths(_, _)
TryPaths(files, before) ==
    IF files = <<>> THEN before
    ELSE LET after == TryPath(Head(files), before) IN
         IF after.done THEN after ELSE TryPaths(Tail(files), after)

LoaderTrace(attempt) ==
    [raw |-> attempt.frame, header_line_idx |-> attempt.header_line_idx,
     how |-> attempt.how, src |-> attempt.src]

Outcome(frame, sig, attempt) ==
    [frame |-> frame, signal |-> sig, trace |-> LoaderTrace(attempt)]

\* lines 63-65
CleanPreloaded(t) ==
    IF HasCol(t, ColPlayer) THEN DropPlayerNa(DropPlayerEquals(t, <<"Player">>)) ELSE t

\* lines 77: df['PrgDist'] = pd.to_numeric(df[prgdist_candidates[0]], errors='coerce')
ResolvePrgDist(t) ==
    LET first == prgdist_candidates(t)[1] IN
    SetColumn(t, ColPrgDist,
              [i \in 1..Len(t.rows) |-> to_numeric(Cell(t, t.rows[i], first))],
              "float64")

\* load_preloaded_data(): `main` is the file at big5_data.csv and
\* ./big5_data.csv, `second` the file at data/big5_data.csv
load_preloaded_data(main, second) ==
    LET a == TryPaths(<<main, main, second>>, NoAttempt) IN
    IF a.isNone
    THEN Outcome(EmptyFrame, "error: Could not find or load big5_data.csv", a)
    ELSE LET cleaned == CoerceColumns(CleanPreloaded(a.frame), <<ColAge, Col90s>>) IN
         IF LowerRaises(cleaned)
         THEN Outcome(EmptyFrame, "error: Error loading preloaded data", a)
         ELSE IF prgdist_candidates(cleaned) = <<>>
         THEN Outcome(EmptyFrame, "error: No progressive distance column found", a)
         ELSE Outcome(WithLeague(ResolvePrgDist(cleaned)), "none", a)

(***************************************************************************)
(* process_fbref_progressive_data                                          *)
(***************************************************************************)
UploadAttempt(frame, idx, how, lines) == Attempt(FALSE, frame, TRUE, idx, how, lines)

\* lines 172-174
CleanUpload(t) ==
    DropPlayerEquals(DropPlayerEquals(DropPlayerNa(t), <<"Player">>), <<"Matches">>)

process_fbref_progressive_data(lines) ==
    LET header_line_idx == FindHeader(lines, UploadTokens) IN
    IF header_line_idx = None
    THEN Outcome(EmptyFrame,
                 "error: Could not find the header row with required columns",
                 UploadAttempt(EmptyFrame, None, "none", lines))
    ELSE LET r == read_csv(FromLine(lines, header_line_idx)) IN
         IF r.raised
         THEN Outcome(EmptyFrame, "error: Error processing file",
                      UploadAttempt(EmptyFrame, header_line_idx, "none", lines))
         ELSE IF ~HasCol(r.frame, ColPlayer)
         THEN \* df['Player'] raises KeyError
              Outcome(EmptyFrame, "error: Error processing file",
                      UploadAttempt(r.frame, header_line_idx, "header", lines))
         ELSE Outcome(WithLeague(CoerceColumns(CleanUpload(r.frame),
                                               <<ColAge, Col90s, ColPrgDist, ColPrgP>>)),
                      "none", UploadAttempt(r.frame, header_line_idx, "header", lines))

NoTrace == LoaderTrace(NoAttempt)

(***************************************************************************)
(* SpecLeague: the classifier applied to bounded squad names               *)
(***************************************************************************)
MaxSquadLen == 4

\* Atoms of squad names: words of listed teams, a lower-case and an
\* unaccented spelling, an unlisted word, and white space.
SquadAtoms ==
    { " ", "\t", "Real", "Madrid", "Inter", "inter", "Atlético", "Atletico",
      "Köln", "Rovers" }

RECURSIVE SeqsUpTo(_, _)
SeqsUpTo(S, n) ==
    IF n = 0 THEN { <<>> }
    ELSE LET shorter == SeqsUpTo(S, n - 1)
         IN  shorter \cup { Append(s, a) : s \in shorter, a \in S }

SquadInputs == (SeqsUpTo(SquadAtoms, MaxSquadLen) \ {<<"NaN">>}) \cup {NaN}

NoLeague == <<"(not called)">>

InitLeague ==
    /\ op = "none"
    /\ squad_name \in SquadInputs
    /\ league = NoLeague
    /\ df = EmptyFrame
    /\ call = NoCall
    /\ result = EmptyFrame
    /\ signal = "none"
    /\ prev = NoPrev
    /\ file = NoFile
    /\ other = NoFile
    /\ trace = NoTrace
    /\ MainIdle

InferLeague ==
    /\ op = "none"
    /\ league' = infer_league_from_squad(squad_name)
    /\ op' = "infer_league_from_squad"
    /\ UNCHANGED <<squad_name, df, call, result, signal, prev, file, other, trace>>
    /\ UNCHANGED mainVars

NextLeague == InferLeague

SpecLeague == InitLeague /\ [][NextLeague]_vars

(***************************************************************************)
(* SpecFilter: filter_and_analyze called, once or twice, on a normalised   *)
(* table                                                                   *)
(***************************************************************************)
MaxRows == 3

DefaultMin90s == 13

DefaultMaxAge == 25

Min90sChoices == {DefaultMin90s, DefaultMin90s + 1}

MaxAgeChoices == {DefaultMaxAge - 1, DefaultMaxAge}

\* Normalised rows: Age, 90s and PrgDist are numbers or NaN, Pos is a text
\* or NaN.
RowPool ==
    { [player |-> <<"A">>, age |-> 24, pos |-> <<"MF">>, n90 |-> 15, prg |-> 450],
      [player |-> <<"B">>, age |-> 25, pos |-> <<"MF", ",", "DF">>, n90 |-> 13, prg |-> 450],
      [player |-> <<"C">>, age |-> 25, pos |-> <<"MF">>, n90 |-> 20, prg |-> 500],
      [player |-> <<"D">>, age |-> 22, pos |-> <<"DF", ",", "MF">>, n90 |-> 15, prg |-> 480],
      [player |-> <<"E">>, age |-> 22, pos |-> <<"FW", ",", "MF">>, n90 |-> 15, prg |-> 470],
      [player |-> <<"F">>, age |-> NumNaN, pos |-> <<"MF">>, n90 |-> 15, prg |-> 460],
      [player |-> <<"G">>, age |-> 22, pos |-> <<"MF">>, n90 |-> NumNaN, prg |-> 440],
      [player |-> <<"H">>, age |-> 22, pos |-> <<"MF">>, n90 |-> 12, prg |-> 430],
      [player |-> <<"I">>, age |-> 22, pos |-> NaN, n90 |-> 15, prg |-> 420],
      [player |-> <<"J">>, age |-> 22, pos |-> <<"MF">>, n90 |-> 15, prg |-> NumNaN],
      [player |-> <<"K">>, age |-> 22, pos |-> <<"MF">>, n90 |-> 15, prg |-> 0] }

FullLayout == <<ColPlayer, ColAge, ColPos_, Col90s, ColPrgDist>>

Without(layout, c) == SelectSeq(layout, LAMBDA x : x # c)

\* The column sets handed to the filter: all required columns, or one of
\* them absent.
Layouts ==
    { FullLayout } \cup
    { Without(FullLayout, c) : c \in {ColAge, Col90s, ColPos_, ColPrgDist} }

FieldOf(r, c) ==
    CASE c = ColPlayer -> r.player
      [] c = ColAge -> r.age
      [] c = ColPos_ -> r.pos
      [] c = Col90s -> r.n90
      [] c = ColPrgDist -> r.prg

\* read_csv gives a column object dtype when some cell of it is a text; a
\* Pos column with no text left may still be object (the text was in a row
\* that normalisation dropped) or be float64.
PosDtypes(rs) ==
    IF \E i \in 1..Len(rs) : ~isna(rs[i].pos) THEN {"object"} ELSE {"object", "float64"}

MakeTable(layout, rs, posDtype) ==
    [columns |-> layout,
     dtypes  |-> [j \in 1..Len(layout) |->
                    IF layout[j] = ColPlayer THEN "object"
                    ELSE IF layout[j] = ColPos_ THEN posDtype
                    ELSE "float64"],
     rows    |-> [i \in 1..Len(rs) |->
                    [idx |-> i - 1,
                     v   |-> [j \in 1..Len(layout) |-> FieldOf(rs[i], layout[j])]]]]

InitFilter ==
    /\ op = "none"
    /\ squad_name = NaN
    /\ league = NoLeague
    /\ \E layout \in Layouts, rs \in SeqsUpTo(RowPool, MaxRows) :
         \E d \in PosDtypes(rs) : df = MakeTable(layout, rs, d)
    /\ call = NoCall
    /\ result = EmptyFrame
    /\ signal = "none"
    /\ prev = NoPrev
    /\ file = NoFile
    /\ other = NoFile
    /\ trace = NoTrace
    /\ MainIdle

\* filter_and_analyze(df, min_90s, max_age); a second call on the same table
\* keeps the first call in prev
FilterAndAnalyze ==
    /\ op = "none" \/ (op = "filter_and_analyze" /\ prev = NoPrev)
    /\ \E m \in Min90sChoices, a \in MaxAgeChoices :
         \E o \in filter_and_analyze(df, m, a) :
            /\ call' = [min_90s |-> m, max_age |-> a]
            /\ result' = o.result
            /\ signal' = o.signal
    /\ prev' = IF op = "none" THEN NoPrev
               ELSE [min_90s |-> call.min_90s, max_age |-> call.max_age,
                     result |-> result, signal |-> signal]
    /\ op' = "filter_and_analyze"
    /\ UNCHANGED <<squad_name, league, df, file, other, trace>>
    /\ UNCHANGED mainVars

NextFilter == FilterAndAnalyze

SpecFilter == InitFilter /\ [][NextFilter]_vars

(***************************************************************************)
(* SpecIngest: a CSV of bounded length read by load_preloaded_data or by   *)
(* process_fbref_progressive_data                                          *)
(***************************************************************************)
MaxLines == 3

\* Header lines (7 fields)
HeaderFull ==
    <<"Player", ",", "Age", ",", "Pos", ",", "Squad", ",", "90s", ",",
      "Prg", "Dist", ",", "Prg", "P">>

HeaderNoPos ==
    <<"Player", ",", "Age", ",", "Nation", ",", "Squad", ",", "90s", ",",
      "Prog", " ", "Dist", ",", "KP">>

HeaderPrgPFirst ==
    <<"Player", ",", "Age", ",", "Pos", ",", "Comp", ",", "90s", ",",
      "Prg", "P", ",", "Prg", "Dist">>

HeaderNoPrg ==
    <<"Player", ",", "Age", ",", "Pos", ",", "Squad", ",", "90s", ",",
      "Tot", "Dist", ",", "KP">>

HeaderBoth ==
    <<"Player", ",", "Age", ",", "Pos", ",", "Squad", ",", "90s", ",",
      "Prg", "Dist", ",", "Comp">>

HeaderNeither ==
    <<"Player", ",", "Age", ",", "Pos", ",", "Nation", ",", "90s", ",",
      "Prg", "Dist", ",", "KP">>

\* Lines of a preamble: a one-field title, a title padded to 7 fields, a
\* padded line of notes that happens to hold every header token
TitleNarrow == <<"Big 5 stats">>

TitleWide == <<"Passing", ",", ",", ",", ",", ",", ",">>

TitleTokens ==
    <<"Player", " ", "Age", " ", "Pos", " ", "90s", " ", "Prg", "Dist", " ", "glossary",
      ",", ",", ",", ",", ",", ",">>

BlankLine == <<>>

\* Data lines
RowPlain ==
    <<"A", ",", "2", "2", ",", "MF", ",", "Arsenal", ",", "1", "5", ",",
      "4", "5", "0", ",", "3", "0">>

RowMatches == <<"Matches", ",", ",", ",", ",", ",", ",">>

RowLoose ==
    <<"B", ",", "2", "2", "-", "1", "5", "0", ",", "\"", "MF", ",", "DF", "\"", ",",
      " ", "Inter", " ", ",", "1", "3", ",", "abc", ",", "4", "7", "0">>

RowNoPlayer ==
    <<",", "2", "4", ",", "MF", ",", "Köln", ",", "2", "0", ",", "4", "8", "0", ",", "9">>

RowShort == <<"C", ",", "2", "1">>

LinePool ==
    { HeaderFull, HeaderNoPos, HeaderPrgPFirst, HeaderNoPrg, HeaderBoth, HeaderNeither,
      TitleNarrow, TitleWide, TitleTokens, BlankLine,
      RowPlain, RowMatches, RowLoose, RowNoPlayer, RowShort }

\* the file at data/big5_data.csv, when there is one
OtherLines == <<TitleWide, HeaderNoPos, RowLoose, RowPlain>>

OtherChoices(f) ==
    IF Len(f.lines) <= 1 THEN {NoFile, File(OtherLines)} ELSE {NoFile}

InitIngest ==
    /\ op = "none"
    /\ squad_name = NaN
    /\ league = NoLeague
    /\ df = EmptyFrame
    /\ call = NoCall
    /\ result = EmptyFrame
    /\ signal = "none"
    /\ prev = NoPrev
    /\ file \in {NoFile} \cup { File(ls) : ls \in SeqsUpTo(LinePool, MaxLines) }
    /\ other \in OtherChoices(file)
    /\ trace = NoTrace
    /\ MainIdle

\* load_preloaded_data()
LoadPreloadedData ==
    /\ op = "none"
    /\ \E o \in { load_preloaded_data(file, other) } :
         /\ df' = o.frame
         /\ signal' = o.signal
         /\ trace' = o.trace
    /\ op' = "load_preloaded_data"
    /\ UNCHANGED <<squad_name, league, call, result, prev, file, other>>
    /\ UNCHANGED mainVars

\* process_fbref_progressive_data(uploaded_file)
ProcessFbrefProgressiveData ==
    /\ op = "none"
    /\ file.exists
    /\ \E o \in { process_fbref_progressive_data(file.lines) } :
         /\ df' = o.frame
         /\ signal' = o.signal
         /\ trace' = o.trace
    /\ op' = "process_fbref_progressive_data"
    /\ UNCHANGED <<squad_name, league, call, result, prev, file, other>>
    /\ UNCHANGED mainVars

NextIngest == LoadPreloadedData \/ ProcessFbrefProgressiveData

SpecIngest == InitIngest /\ [][NextIngest]_vars

(***************************************************************************)
(* main: DataFrame objects.  A table variable of main holds a reference;   *)
(* df[c] = ... changes the object in place, .copy(), boolean indexing,     *)
(* sort_values and pd.concat make a new object.                            *)
(***************************************************************************)
\* a new object holding table t; its reference is the new length
Alloc(h, t) == Append(h, t)

\* obj[c] = values
SetItem(h, ref, c, values, dtype) ==
    [h EXCEPT ![ref] = SetColumn(h[ref], c, values, dtype)]

\* filtered_df as it is before line 239 adds Rank
BeforeRank(t) ==
    [columns |-> SubSeq(t.columns, 1, Len(t.columns) - 1),
     dtypes  |-> SubSeq(t.dtypes, 1, Len(t.dtypes) - 1),
     rows    |-> [k \in 1..Len(t.rows) |->
                    [idx |-> t.rows[k].idx,
                     v   |-> SubSeq(t.rows[k].v, 1, Len(t.rows[k].v) - 1)]]]

Returned(h, ref, sig) == [heap |-> h, ref |-> ref, signal |-> sig]

\* filter_and_analyze(df, min_90s, max_age) with df the object `ref`: the
\* table returned is a new object (pd.DataFrame(), or df[mask].copy() sorted
\* by sort_values) and line 239 writes Rank to that object
CallFilter(h, ref, min_90s, max_age) ==
    { IF IsEmpty(o.result)
      THEN Returned(Alloc(h, EmptyFrame), Len(h) + 1, o.signal)
      ELSE Returned(SetItem(Alloc(h, BeforeRank(o.result)), Len(h) + 1, ColRank,
                            Column(o.result, ColRank), "int64"),
                    Len(h) + 1, o.signal)
      : o \in filter_and_analyze(h[ref], min_90s, max_age) }

(***************************************************************************)
(* main: upload slots, league override, combination                        *)
(***************************************************************************)
AllLeagues == <<"All Leagues">>

Big5Combined == <<"Big 5 Combined">>

PreloadedData == <<"Preloaded Data">>

\* the leagues dict of main, in order
leagues ==
    << <<"Premier", " ", "League">>, <<"La", " ", "Liga">>, <<"Bundesliga">>,
       <<"Serie", " ", "A">>, <<"Ligue", " ", "1">> >>

available_leagues == <<AllLeagues>> \o leagues

\* the order in which main fills uploaded_files
SlotOrder == <<Big5Combined>> \o leagues

InSeq(q, x) == \E k \in 1..Len(q) : q[k] = x

Entry(name, ref, lines) == [name |-> name, frame |-> ref, lines |-> lines]

\* lines 367-421: one entry per filled uploader, in the order of the code
UploadedFiles(ups) ==
    LET filled == SelectSeq(SlotOrder, LAMBDA sl : \E k \in 1..Len(ups) : ups[k].slot = sl)
    IN  [k \in 1..Len(filled) |->
            Entry(filled[k], 0,
                  ups[CHOOSE u \in 1..Len(ups) : ups[u].slot = filled[k]].lines)]

\* preloaded_df[preloaded_df['League'] == selected_league_filter]
LeagueEquals(t, name) ==
    Select(t, { t.rows[i].idx : i \in { i \in 1..Len(t.rows) :
                                          Cell(t, t.rows[i], ColLeague) = name } })

\* lines 308-312
filtered_preloaded(t, selected) ==
    IF selected # AllLeagues THEN LeagueEquals(t, selected) ELSE t

OverridesLeagueBoth(t, league_name) ==
    ~HasCol(t, ColLeague) /\ league_name # Big5Combined

\* 'League' not in filtered_df.columns or league_name != 'Big 5 Combined'
OverridesLeague(t, league_name) ==
    ~HasCol(t, ColLeague) \/ league_name # Big5Combined

LeagueTargetInput(df_ref, filtered_ref) == df_ref

\* the object line 471 writes League to: filtered_df
LeagueTarget(df_ref, filtered_ref) == filtered_ref

\* line 489 reads player['Squad'] of the top rows: KeyError without the column
TopThreeRaises(t) == ~HasCol(t, ColSquad)

\* the columns that hold numbers after normalization
NumericColumns == {ColAge, Col90s, ColPrgDist, ColPrgP, ColRank}

\* the value pd.concat gives a row for a column its table lacks
MissingValue(c) == IF c \in NumericColumns THEN NumNaN ELSE NaN

\* the columns of the tables, in the order of first appearance
RECURSIVE UnionColumns(_, _)
UnionColumns(frames, acc) ==
    IF frames = <<>> THEN acc
    ELSE UnionColumns(Tail(frames),
                      acc \o SelectSeq(Head(frames).columns, LAMBDA c : ~InSeq(acc, c)))

RECURSIVE ConcatValues(_, _)
ConcatValues(frames, cols) ==
    IF frames = <<>> THEN <<>>
    ELSE LET t == Head(frames) IN
         [k \in 1..Len(t.rows) |->
            [j \in 1..Len(cols) |->
               IF HasCol(t, cols[j]) THEN Cell(t, t.rows[k], cols[j])
               ELSE MissingValue(cols[j])]]
         \o ConcatValues(Tail(frames), cols)

ConcatDtype(frames, c) ==
    LET having == SelectSeq(frames, LAMBDA t : HasCol(t, c)) IN
    IF \E k \in 1..Len(having) : having[k].dtypes[ColPos(having[k], c)] = "object"
    THEN "object"
    ELSE IF \/ Len(having) < Len(frames)
            \/ \E k \in 1..Len(having) : having[k].dtypes[ColPos(having[k], c)] = "float64"
    THEN "float64"
    ELSE "int64"

\* pd.concat(all_data, ignore_index=True)
concat(frames) ==
    LET cols   == UnionColumns(frames, <<>>)
        values == ConcatValues(frames, cols)
    IN  [columns |-> cols,
         dtypes  |-> [j \in 1..Len(cols) |-> ConcatDtype(frames, cols[j])],
         rows    |-> [k \in 1..Len(values) |-> [idx |-> k - 1, v |-> values[k]]]]

ColOverallRank == <<"Overall_", "Rank">>

CombineUnsorted(t) == {t}

\* combined_df.sort_values('PrgDist', ascending=False)
CombineSort(t) == sort_values(t, ColPrgDist)

(***************************************************************************)
(* SpecMain: one run of main() over the bundled file or over a bounded     *)
(* number of uploads                                                       *)
(***************************************************************************)
MaxSources == 2

RowD ==
    <<"D", ",", "2", "3", ",", "MF", ",", "Inter", ",", "2", "0", ",",
      "5", "0", "0", ",", "4", "0">>

RowE ==
    <<"E", ",", "2", "4", ",", "\"", "MF", ",", "FW", "\"", ",", "Köln", ",", "1", "4", ",",
      "4", "5", "0", ",", "3", "5">>

RowOld ==
    <<"G", ",", "2", "7", ",", "MF", ",", "Lyon", ",", "3", "0", ",",
      "6", "0", "0", ",", "5", "0">>

RowComp ==
    <<"H", ",", "2", "1", ",", "MF", ",", "Betis", ",", "1", "6", ",",
      "5", "2", "0", ",", "es La Liga">>

\* one qualifying row (450)
FileA == <<HeaderFull, RowPlain>>

\* a preamble, one qualifying row (500) and one that is too old
FileD == <<TitleWide, HeaderFull, RowD, RowOld>>

\* two qualifying rows, in ascending order (450, 500)
FileED == <<HeaderFull, RowE, RowD>>

\* a Comp column besides Squad, one qualifying row (520)
FileComp == <<HeaderBoth, RowComp>>

\* no Squad column, one qualifying row (30)
FileNoSquad == <<HeaderPrgPFirst, RowPlain>>

\* no qualifying row
FileNone == <<HeaderFull, RowOld>>

\* no header line
FileBad == <<HeaderNoPos, RowPlain>>

\* a Pos column without a string value
FileNoPos == <<HeaderFull, RowShort>>

MainFiles == {FileA, FileD, FileED, FileComp, FileNoSquad, FileNone, FileBad, FileNoPos}

Sidebar(pre, selected) ==
    [use_preloaded_data |-> pre, selected_league_filter |-> selected,
     min_90s |-> DefaultMin90s, max_age |-> DefaultMaxAge]

InitMain ==
    /\ op = "none"
    /\ squad_name = NaN
    /\ league = NoLeague
    /\ df = EmptyFrame
    /\ call = NoCall
    /\ result = EmptyFrame
    /\ signal = "none"
    /\ prev = NoPrev
    /\ trace = NoTrace
    /\ other = NoFile
    /\ \/ /\ sidebar \in { Sidebar(TRUE, sel) :
                             sel \in { available_leagues[k] : k \in 1..Len(available_leagues) } }
          /\ file \in {NoFile} \cup { File(f) : f \in MainFiles }
       \/ /\ sidebar = Sidebar(FALSE, AllLeagues)
          /\ file = NoFile
    /\ pc = "upload"
    /\ uploaded = <<>>
    /\ uploaded_files = <<>>
    /\ cursor = 0
    /\ heap = <<>>
    /\ all_data = <<>>
    /\ combined_df = 0
    /\ sources = <<>>

\* the user puts a file in an empty uploader
UploadFile ==
    /\ pc = "upload"
    /\ ~sidebar.use_preloaded_data
    /\ Len(uploaded) < MaxSources
    /\ \E k \in 1..Len(SlotOrder), f \in MainFiles :
         /\ \A u \in 1..Len(uploaded) : uploaded[u].slot # SlotOrder[k]
         /\ uploaded' = Append(uploaded, [slot |-> SlotOrder[k], lines |-> f])
    /\ UNCHANGED <<op, squad_name, league, df, call, result, signal, prev, file, other, trace>>
    /\ UNCHANGED <<pc, sidebar, uploaded_files, cursor, heap, all_data, combined_df, sources>>

\* main, lines 300-437: uploaded_files is built
StartMain ==
    /\ pc = "upload"
    /\ IF sidebar.use_preloaded_data
       THEN \E o \in { load_preloaded_data(file, other) } :
              IF ~IsEmpty(o.frame)
              THEN /\ heap' = Alloc(Alloc(heap, o.frame),
                                    filtered_preloaded(o.frame, sidebar.selected_league_filter))
                   /\ uploaded_files' = <<Entry(PreloadedData, Len(heap) + 2, <<>>)>>
              ELSE /\ heap' = Alloc(heap, o.frame)
                   /\ uploaded_files' = <<>>
       ELSE /\ heap' = heap
            /\ uploaded_files' = UploadedFiles(uploaded)
    /\ pc' = IF uploaded_files' = <<>> THEN "done" ELSE "process"
    /\ cursor' = 1
    /\ all_data' = <<>>
    /\ UNCHANGED <<op, squad_name, league, df, call, result, signal, prev, file, other, trace>>
    /\ UNCHANGED <<sidebar, uploaded, combined_df, sources>>

Source(name, df_ref, normalized, filtered_ref, returned) ==
    [name |-> name, df_ref |-> df_ref, normalized |-> normalized,
     filtered_ref |-> filtered_ref, returned |-> returned]

\* main, lines 442-446: one entry of the bundled data
ProcessPreloaded(e) ==
    \E r \in CallFilter(heap, e.frame, sidebar.min_90s, sidebar.max_age) :
       /\ sources' = Append(sources, Source(e.name, e.frame, heap[e.frame], r.ref,
                                            r.heap[r.ref]))
       /\ heap' = r.heap
       /\ IF r.signal = "raise: AttributeError"
          THEN /\ pc' = "crashed"
               /\ all_data' = all_data
          ELSE /\ pc' = pc
               /\ all_data' = IF ~IsEmpty(r.heap[r.ref]) THEN Append(all_data, r.ref)
                              ELSE all_data

\* main, lines 451-493: one uploaded file
ProcessUpload(e) ==
    \E o \in { process_fbref_progressive_data(e.lines) } :
       LET h1     == Alloc(heap, o.frame)
           df_ref == Len(heap) + 1
       IN  IF IsEmpty(o.frame)
           THEN /\ heap' = h1
                /\ sources' = Append(sources, Source(e.name, df_ref, o.frame, 0, EmptyFrame))
                /\ pc' = pc
                /\ all_data' = all_data
           ELSE \E r \in CallFilter(h1, df_ref, sidebar.min_90s, sidebar.max_age) :
                  /\ sources' = Append(sources, Source(e.name, df_ref, o.frame, r.ref,
                                                       r.heap[r.ref]))
                  /\ IF r.signal = "raise: AttributeError"
                     THEN /\ heap' = r.heap
                          /\ pc' = "crashed"
                          /\ all_data' = all_data
                     ELSE IF IsEmpty(r.heap[r.ref])
                     THEN /\ heap' = r.heap
                          /\ pc' = pc
                          /\ all_data' = all_data
                     ELSE /\ heap' =
                               IF OverridesLeague(r.heap[r.ref], e.name)
                               THEN LET target == LeagueTarget(df_ref, r.ref) IN
                                    SetItem(r.heap, target, ColLeague,
                                            [k \in 1..Len(r.heap[target].rows) |-> e.name],
                                            "object")
                               ELSE r.heap
                          /\ all_data' = Append(all_data, r.ref)
                          /\ pc' = IF TopThreeRaises(r.heap[r.ref]) THEN "crashed" ELSE pc

\* one iteration of the loop over uploaded_files.items()
ProcessEntry ==
    /\ pc = "process"
    /\ cursor <= Len(uploaded_files)
    /\ IF sidebar.use_preloaded_data
       THEN ProcessPreloaded(uploaded_files[cursor])
       ELSE ProcessUpload(uploaded_files[cursor])
    /\ cursor' = cursor + 1
    /\ UNCHANGED <<op, squad_name, league, df, call, result, signal, prev, file, other, trace>>
    /\ UNCHANGED <<sidebar, uploaded, uploaded_files, combined_df>>

\* the tables pd.concat, sort_values and the Overall_Rank column can make of
\* the filtered tables
combined(frames) ==
    { SetColumn(sorted, ColOverallRank, [k \in 1..Len(sorted.rows) |-> RankAt(k)], "int64") :
        sorted \in CombineSort(concat(frames)) }

\* main, lines 496-506 (and 676-677 when all_data is empty)
Combine ==
    /\ pc = "process"
    /\ cursor > Len(uploaded_files)
    /\ IF all_data = <<>>
       THEN /\ pc' = "done"
            /\ UNCHANGED <<heap, combined_df>>
       ELSE \E sorted \in CombineSort(concat([k \in 1..Len(all_data) |-> heap[all_data[k]]])) :
              /\ heap' = SetItem(Alloc(Alloc(heap,
                                     concat([k \in 1..Len(all_data) |-> heap[all_data[k]]])),
                                     sorted),
                                 Len(heap) + 2, ColOverallRank,
                                 [k \in 1..Len(sorted.rows) |-> RankAt(k)], "int64")
              /\ combined_df' = Len(heap) + 2
              /\ pc' = "combined"
    /\ UNCHANGED <<op, squad_name, league, df, call, result, signal, prev, file, other, trace>>
    /\ UNCHANGED <<sidebar, uploaded, uploaded_files, cursor, all_data, sources>>

NextMain == UploadFile \/ StartMain \/ ProcessEntry \/ Combine

SpecMain == InitMain /\ [][NextMain]_vars

(***************************************************************************)
(* Claims about filter_and_analyze (checked under SpecFilter)              *)
(***************************************************************************)
Called == op = "filter_and_analyze"

HasRequiredColumns(t) ==
    /\ HasCol(t, ColAge)
    /\ HasCol(t, Col90s)
    /\ HasCol(t, ColPos_)
    /\ HasCol(t, ColPrgDist)

\* the positions of the result rows that carry the index label of row r
PlacesOf(t, r) == { k \in 1..Len(t.rows) : t.rows[k].idx = r.idx }

\* a result row without the Rank the call appended
Unranked(row) == [idx |-> row.idx, v |-> SubSeq(row.v, 1, Len(row.v) - 1)]

Records(t) == { Unranked(t.rows[k]) : k \in 1..Len(t.rows) }

Qualifies(t, r, min_90s, max_age) ==
    /\ Cell(t, r, ColAge) # NumNaN
    /\ Cell(t, r, ColAge) <= max_age
    /\ Cell(t, r, Col90s) # NumNaN
    /\ Cell(t, r, Col90s) >= min_90s
    /\ Cell(t, r, ColPos_) # NaN
    /\ Len(Cell(t, r, ColPos_)) >= 1
    /\ Cell(t, r, ColPos_)[1] = "MF"
    /\ Cell(t, r, ColPrgDist) # NumNaN
    /\ Cell(t, r, ColPrgDist) > 0

\* C1: on a table that has Age, 90s, Pos and PrgDist, a row is in the result
\* of filter_and_analyze exactly when its Age is non-null and <= max_age, its
\* 90s is non-null and >= min_90s, its Pos starts with "MF" and its PrgDist
\* is non-null and > 0; it is there once, with its values, and the result
\* holds nothing else.
C1_FilterKeepsExactlyQualifying ==
    (Called /\ HasRequiredColumns(df)) =>
        /\ \A i \in 1..Len(df.rows) :
              IF Qualifies(df, df.rows[i], call.min_90s, call.max_age)
              THEN /\ Cardinality(PlacesOf(result, df.rows[i])) = 1
                   /\ Unranked(result.rows[CHOOSE k \in PlacesOf(result, df.rows[i]) : TRUE])
                        = df.rows[i]
              ELSE PlacesOf(result, df.rows[i]) = {}
        /\ \A k \in 1..Len(result.rows) :
              \E i \in 1..Len(df.rows) : df.rows[i].idx = result.rows[k].idx

\* C1 witness: a call that kept an "MF,DF" row and dropped a "DF,MF" row and
\* a "FW,MF" row of the same table.
C1_Witness ==
    /\ Called
    /\ HasRequiredColumns(df)
    /\ \E i \in 1..Len(df.rows) :
          /\ Cell(df, df.rows[i], ColPos_) = <<"MF", ",", "DF">>
          /\ PlacesOf(result, df.rows[i]) # {}
    /\ \E i \in 1..Len(df.rows) :
          /\ Cell(df, df.rows[i], ColPos_) = <<"DF", ",", "MF">>
          /\ PlacesOf(result, df.rows[i]) = {}
    /\ \E i \in 1..Len(df.rows) :
          /\ Cell(df, df.rows[i], ColPos_) = <<"FW", ",", "MF">>
          /\ PlacesOf(result, df.rows[i]) = {}

\* C2: in a non-empty result of N rows the row at position i has Rank i, so
\* the Rank values are exactly 1..N, and PrgDist does not increase down the
\* rows.
C2_RankIsDensePosition ==
    (Called /\ Len(result.rows) > 0) =>
        /\ HasCol(result, ColRank)
        /\ \A k \in 1..Len(result.rows) : Cell(result, result.rows[k], ColRank) = k
        /\ { Cell(result, result.rows[k], ColRank) : k \in 1..Len(result.rows) }
             = 1..Len(result.rows)
        /\ \A k \in 1..(Len(result.rows) - 1) :
              Cell(result, result.rows[k], ColPrgDist)
                >= Cell(result, result.rows[k + 1], ColPrgDist)

\* C2 witness: a result of three rows, the input not in descending order.
C2_Witness ==
    /\ Called
    /\ Len(result.rows) = 3
    /\ Cell(df, df.rows[1], ColPrgDist) < Cell(df, df.rows[2], ColPrgDist)
    /\ Cell(result, result.rows[1], ColPrgDist) > Cell(result, result.rows[3], ColPrgDist)

\* C3 (as claimed): two result rows with equal PrgDist stand in their input
\* order.
C3_SortIsStable ==
    Called =>
        \A j, k \in 1..Len(result.rows) :
            ( /\ j < k
              /\ Cell(result, result.rows[j], ColPrgDist)
                   = Cell(result, result.rows[k], ColPrgDist) )
            => result.rows[j].idx < result.rows[k].idx

\* C4: of two calls on one table with the same min_90s, the call with the
\* smaller max_age returns a subset of the records of the other.
C4_MonotoneInMaxAge ==
    (Called /\ prev # NoPrev /\ prev.min_90s = call.min_90s) =>
        /\ prev.max_age < call.max_age => Records(prev.result) \subseteq Records(result)
        /\ call.max_age < prev.max_age => Records(result) \subseteq Records(prev.result)

\* C4 witness: the call with the smaller max_age returned some records, and
\* the other call strictly more.
C4_Witness ==
    /\ Called
    /\ prev # NoPrev
    /\ prev.min_90s = call.min_90s
    /\ prev.max_age < call.max_age
    /\ Records(prev.result) # {}
    /\ Records(prev.result) # Records(result)

IsColumnError(s) ==
    s \in { "error: Age column not found in dataset",
            "error: 90s column not found in dataset",
            "error: Position column not found in dataset",
            "error: Progressive Distance column not found in dataset" }

\* C5 (as claimed): a table lacking one of Age, 90s, Pos, PrgDist, its rows
\* none or many, gets a missing-column error and an empty result; a table
\* with all four and no qualifying row gets the empty-result warning and an
\* empty result.
C5_EmptyOutcomesSignalled ==
    Called =>
        /\ ~HasRequiredColumns(df) => (IsColumnError(signal) /\ IsEmpty(result))
        /\ ( /\ HasRequiredColumns(df)
             /\ \A i \in 1..Len(df.rows) :
                   ~Qualifies(df, df.rows[i], call.min_90s, call.max_age) )
           => (signal = "warning: No players match the criteria" /\ IsEmpty(result))

(***************************************************************************)
(* Claims about infer_league_from_squad (checked under SpecLeague)         *)
(***************************************************************************)
Unknown == <<"Unknown">>

TeamSets == <<pl_teams, laliga_teams, bundesliga_teams, seria_teams, ligue1_teams>>

LeagueNames ==
    << <<"Premier", " ", "League">>, <<"La", " ", "Liga">>, <<"Bundesliga">>,
       <<"Serie", " ", "A">>, <<"Ligue", " ", "1">> >>

\* the name without the white space around it
Trimmed(name) ==
    LET first == { i \in 1..Len(name) : name[i] \notin {" ", "\t"} } IN
    IF first = {} THEN <<>>
    ELSE SubSeq(name, CHOOSE i \in first : \A k \in first : i <= k,
                      CHOOSE j \in first : \A k \in first : k <= j)

\* C6: a null or empty squad name gives "Unknown"; the five team sets are
\* pairwise disjoint; any other name gives the league whose set holds the
\* name trimmed of surrounding white space, compared exactly, and "Unknown"
\* when no set holds it.
C6_LeagueIsExactLookup ==
    /\ \A a, b \in 1..5 : a # b => TeamSets[a] \cap TeamSets[b] = {}
    /\ op = "infer_league_from_squad" =>
         /\ (squad_name = NaN \/ squad_name = <<>>) => league = Unknown
         /\ squad_name # NaN =>
              /\ \A a \in 1..5 :
                    league = LeagueNames[a] <=> Trimmed(squad_name) \in TeamSets[a]
              /\ league = Unknown <=>
                    \A a \in 1..5 : Trimmed(squad_name) \notin TeamSets[a]

\* C6 witness: a listed two-word team with white space after it was
\* classified into its league.
C6_Witness ==
    /\ op = "infer_league_from_squad"
    /\ squad_name = <<"Real", " ", "Madrid", "\t">>
    /\ league = <<"La", " ", "Liga">>

(***************************************************************************)
(* Claims about the two loaders (checked under SpecIngest)                 *)
(***************************************************************************)
Loaders == {"load_preloaded_data", "process_fbref_progressive_data"}

\* the token set the loader that ran requires of a header line
RequiredTokens == IF op = "load_preloaded_data" THEN PreloadedTokens ELSE UploadTokens

\* the 0-based indexes of the lines that contain every token
TokenLines(lines, tokens) ==
    { i \in 0..(Len(lines) - 1) : \A t \in tokens : Contains(lines[i + 1], t) }

Lowest(S) == CHOOSE i \in S : \A j \in S : i <= j

\* the non-blank lines strictly below line h (0-based)
DataLinesBelow(lines, h) ==
    SelectSeq(SubSeq(lines, h + 2, Len(lines)), LAMBDA l : l # <<>>)

\* the cells a line gives to a table of `w` columns
CellsOf(line, w) ==
    LET fs == SplitCsv(line) IN
    [j \in 1..w |-> IF j > Len(fs) \/ fs[j] = <<>> \/ fs[j] = NaN THEN NaN ELSE fs[j]]

Idxs(t) == [k \in 1..Len(t.rows) |-> t.rows[k].idx]

\* C7: on both ingestion paths the header is the first line, scanning from
\* the top, that contains every required token ("Player", "Age", "Pos"; on
\* the upload path also "90s" and "PrgDist"); the table is parsed from that
\* line onward: its columns are the fields of that line, no line above it
\* becomes a row and every non-blank line below it is a row, in file order.
C7_HeaderIsFirstTokenLine ==
    (op \in Loaders /\ file.exists /\ TokenLines(file.lines, RequiredTokens) # {}) =>
        LET h     == Lowest(TokenLines(file.lines, RequiredTokens))
            names == SplitCsv(file.lines[h + 1])
            below == DataLinesBelow(file.lines, h)
            raw   == trace.raw
        IN  /\ trace.how = "header"
            /\ trace.src = file.lines
            /\ trace.header_line_idx = h
            /\ Len(raw.columns) = Len(names)
            /\ \A j \in 1..Len(names) : names[j] # <<>> => raw.columns[j] = names[j]
            /\ Len(raw.rows) = Len(below)
            /\ \A k \in 1..Len(below) : raw.rows[k].v = CellsOf(below[k], Len(names))

\* a header below a preamble line, one data line below the header
C7_Witness ==
    /\ op = "load_preloaded_data"
    /\ file = File(<<TitleWide, HeaderFull, RowPlain>>)
    /\ trace.header_line_idx = 1
    /\ trace.raw.columns[1] = ColPlayer
    /\ Len(trace.raw.rows) = 1
    /\ trace.raw.rows[1].v[1] = <<"A">>
    /\ signal = "none"

\* the lines a parse without a header accepts: no non-blank line has more
\* fields than the first one
Tokenizable(lines) ==
    LET nb == SelectSeq(lines, LAMBDA l : l # <<>>) IN
    \A i \in 1..Len(nb) : Len(SplitCsv(nb[i])) <= Len(SplitCsv(nb[1]))

\* the rows, among the first min(10, row count) rows parsed without a
\* header, whose cells include the values "Player" and "Age" (1-based)
PromotableRows(lines) ==
    LET nb == SelectSeq(lines, LAMBDA l : l # <<>>) IN
    { i \in 1..(IF Len(nb) < 10 THEN Len(nb) ELSE 10) :
        LET fs == SplitCsv(nb[i]) IN
        /\ \E j \in 1..Len(fs) : fs[j] = <<"Player">>
        /\ \E j \in 1..Len(fs) : fs[j] = <<"Age">> }

IsError(s) == s \notin {"none", "warning: No players match the criteria"}

\* C8: when no line contains the required token set, the first row among
\* the first min(10, row count) rows parsed without a header whose cells
\* include "Player" and "Age" is promoted to header and the rows up to and
\* including it are discarded; only when there is no such row either is a
\* failure reported with an empty table. On both ingestion paths.
C8_SecondaryRecoveryOnBothPaths ==
    ( /\ op \in Loaders
      /\ file.exists
      /\ ~other.exists
      /\ TokenLines(file.lines, RequiredTokens) = {}
      /\ Tokenizable(file.lines) ) =>
        LET nb == SelectSeq(file.lines, LAMBDA l : l # <<>>)
            P  == PromotableRows(file.lines)
        IN  IF P # {}
            THEN LET i == Lowest(P)
                     w == Len(SplitCsv(nb[i]))
                 IN  /\ trace.raw.columns = CellsOf(nb[i], w)
                     /\ Len(trace.raw.rows) = Len(nb) - i
                     /\ \A k \in 1..(Len(nb) - i) :
                          trace.raw.rows[k].v = CellsOf(nb[i + k], w)
                     /\ signal # "error: Could not find the header row with required columns"
                     /\ signal # "error: Could not find or load big5_data.csv"
            ELSE IsEmpty(df) /\ IsError(signal)

NonPlayerValues == {NaN, <<>>, <<"Player">>, <<"Matches">>}

\* C9: after normalization on either ingestion path no surviving row has a
\* Player value that is null, empty, "Player" or "Matches"; every other row
\* of the parsed table survives, and the survivors keep their relative order.
C9_NonPlayerRowsDropped ==
    (op \in Loaders /\ signal = "none" /\ HasCol(trace.raw, ColPlayer)) =>
        LET raw  == trace.raw
            kept == SelectSeq(raw.rows,
                              LAMBDA r : Cell(raw, r, ColPlayer) \notin NonPlayerValues)
        IN  /\ \A k \in 1..Len(df.rows) :
                 Cell(df, df.rows[k], ColPlayer) \notin NonPlayerValues
            /\ Idxs(df) = [k \in 1..Len(kept) |-> kept[k].idx]

\* the names of the parsed columns that contain "prg" or "prog",
\* case-insensitively, in column order
PrgColumns(t) ==
    SelectSeq(t.columns,
              LAMBDA c : /\ c # NaN
                         /\ \/ Contains(Lower(c), <<"prg">>)
                            \/ Contains(Lower(c), <<"prog">>))

\* C10: on either ingestion path normalization takes the first column (in
\* column order) whose name contains "prg" or "prog" case-insensitively,
\* coerces it to numeric and exposes it as PrgDist; when no column name
\* matches, the table is rejected: a failure and an empty table.
C10_PrgDistIsFirstMatch ==
    ( /\ op \in Loaders
      /\ trace.how \in {"header", "promoted"}
      /\ HasCol(trace.raw, ColPlayer) ) =>
        LET raw   == trace.raw
            cands == PrgColumns(raw)
        IN  IF cands = <<>>
            THEN IsEmpty(df) /\ IsError(signal)
            ELSE /\ signal = "none"
                 /\ HasCol(df, ColPrgDist)
                 /\ \A k \in 1..Len(df.rows) :
                      \E r \in 1..Len(raw.rows) :
                         /\ raw.rows[r].idx = df.rows[k].idx
                         /\ Cell(df, df.rows[k], ColPrgDist)
                              = to_numeric(Cell(raw, raw.rows[r], cands[1]))

\* the row of table t that carries index label i
RowOf(t, i) == t.rows[CHOOSE r \in 1..Len(t.rows) : t.rows[r].idx = i]

\* C11: every normalized record has a League value derived in priority
\* order: the row's Comp value verbatim when the table has a Comp column
\* (the squad is not consulted, even when Comp is null for the row), else
\* infer_league_from_squad(Squad) when it has a Squad column, else the
\* constant "Unknown"; on both ingestion paths.
C11_LeagueByPriority ==
    (op \in Loaders /\ signal = "none") =>
        /\ HasCol(df, ColLeague)
        /\ \A k \in 1..Len(df.rows) :
             LET raw == trace.raw
                 rr  == RowOf(raw, df.rows[k].idx)
             IN  Cell(df, df.rows[k], ColLeague) =
                    IF HasCol(raw, ColComp) THEN Cell(raw, rr, ColComp)
                    ELSE IF HasCol(raw, ColSquad)
                    THEN infer_league_from_squad(Cell(raw, rr, ColSquad))
                    ELSE <<"Unknown">>

\* a table with both columns: one row without a Comp value, one row of a
\* listed squad with a Comp value
C11_Witness ==
    /\ op = "process_fbref_progressive_data"
    /\ file = File(<<HeaderBoth, RowShort, RowPlain>>)
    /\ signal = "none"
    /\ Len(df.rows) = 2
    /\ Cell(df, df.rows[1], ColLeague) = NaN
    /\ Cell(df, df.rows[2], ColLeague) = <<"3", "0">>
    /\ Cell(df, df.rows[2], ColSquad) = <<"Arsenal">>

\* the columns the loader that ran coerces
NumericCols == IF op = "load_preloaded_data" THEN {ColAge, Col90s}
               ELSE {ColAge, Col90s, ColPrgP}

\* C13: after normalization on either path every Age and 90s value (and
\* PrgP on the upload path) is null or a number, never unparsed text: the
\* column is numeric and holds the number the text spells, null when it
\* spells none; a row whose value fails the coercion is retained.
C13_CoercionKeepsRows ==
    (op \in Loaders /\ signal = "none") =>
        LET raw == trace.raw IN
        /\ \A c \in NumericCols : HasCol(raw, c) =>
             /\ HasCol(df, c)
             /\ df.dtypes[ColPos(df, c)] \in {"float64", "int64"}
             /\ \A k \in 1..Len(df.rows) :
                  LET text == Cell(raw, RowOf(raw, df.rows[k].idx), c) IN
                  Cell(df, df.rows[k], c) =
                     IF IsNumberText(text) THEN NumVal(text) ELSE NumNaN
        /\ \A r \in 1..Len(raw.rows) :
             (HasCol(raw, ColPlayer) =>
                 Cell(raw, raw.rows[r], ColPlayer) \notin NonPlayerValues)
             => \E k \in 1..Len(df.rows) : df.rows[k].idx = raw.rows[r].idx

\* an upload whose only row has an Age and a PrgP that spell no number
C13_Witness ==
    /\ op = "process_fbref_progressive_data"
    /\ file = File(<<HeaderPrgPFirst, RowLoose>>)
    /\ signal = "none"
    /\ Len(df.rows) = 1
    /\ Cell(df, df.rows[1], ColAge) = NumNaN
    /\ Cell(df, df.rows[1], ColPrgP) = NumNaN
    /\ Cell(df, df.rows[1], Col90s) = 13

(***************************************************************************)
(* Claims about the stages as a whole                                      *)
(***************************************************************************)
Stages == Loaders \cup {"filter_and_analyze"}

\* the stage ended by an exception that left it
Escaped(s) == s \in {"raise: AttributeError"}

\* C14: for every input (any content, any column set, any column types,
\* a Pos column without a string value included) a stage ends by returning
\* a table, or an empty table with a reported reason; no failure leaves
\* load_preloaded_data, process_fbref_progressive_data or
\* filter_and_analyze as an exception.
C14_NoExceptionEscapes ==
    op \in Stages => ~Escaped(signal)

(***************************************************************************)
(* Claims about main (checked under SpecMain)                              *)
(***************************************************************************)
\* the filtered tables main collected, in the order of all_data
Collected == [k \in 1..Len(all_data) |-> heap[all_data[k]]]

\* the rows of the tables, one after the other, each with its table
RECURSIVE FlatRows(_)
FlatRows(frames) ==
    IF frames = <<>> THEN <<>>
    ELSE [k \in 1..Len(Head(frames).rows) |->
             [table |-> Head(frames), row |-> Head(frames).rows[k]]]
         \o FlatRows(Tail(frames))

ColumnSet(t) == { t.columns[j] : j \in 1..Len(t.columns) }

\* the rows of a table as records, in order, index labels left out
RecordsInOrder(t) ==
    [k \in 1..Len(t.rows) |-> [c \in ColumnSet(t) |-> Cell(t, t.rows[k], c)]]

DistinctPrgDist(t) ==
    \A a, b \in 1..Len(t.rows) :
        a # b => Cell(t, t.rows[a], ColPrgDist) # Cell(t, t.rows[b], ColPrgDist)

\* C12: the combined result holds exactly the rows of the per-source
\* results (each once, with its values), is ordered by non-increasing
\* PrgDist and carries Overall_Rank 1..N in output order; when the PrgDist
\* values are distinct, the combined sequence and its ranks are the same
\* whatever the order of the sources.
C12_CombinedIsRankedUnion ==
    pc = "combined" =>
        LET c    == heap[combined_df]
            flat == FlatRows(Collected)
        IN  /\ Len(c.rows) = Len(flat)
            /\ { c.rows[k].idx : k \in 1..Len(c.rows) } = 0..(Len(flat) - 1)
            /\ \A k \in 1..Len(c.rows) :
                 LET src == flat[c.rows[k].idx + 1] IN
                 \A col \in ColumnSet(src.table) :
                    /\ HasCol(c, col)
                    /\ Cell(c, c.rows[k], col) = Cell(src.table, src.row, col)
            /\ ColumnSet(c) =
                 UNION { ColumnSet(Collected[k]) : k \in 1..Len(Collected) }
                    \cup {ColOverallRank}
            /\ \A k \in 1..(Len(c.rows) - 1) :
                 Cell(c, c.rows[k], ColPrgDist) >= Cell(c, c.rows[k + 1], ColPrgDist)
            /\ \A k \in 1..Len(c.rows) : Cell(c, c.rows[k], ColOverallRank) = k
            /\ DistinctPrgDist(c) =>
                 \A q \in Perms(Len(all_data)) :
                    \A x \in combined([k \in 1..Len(all_data) |-> Collected[q[k]]]) :
                       RecordsInOrder(x) = RecordsInOrder(c)

\* two uploads with one qualifying row each, the later slot filled first
C12_Witness ==
    /\ pc = "combined"
    /\ uploaded = << [slot |-> leagues[2], lines |-> FileA],
                     [slot |-> leagues[1], lines |-> FileD] >>
    /\ Len(all_data) = 2
    /\ Len(heap[combined_df].rows) = 2
    /\ Cell(heap[combined_df], heap[combined_df].rows[1], ColPlayer) = <<"D">>
    /\ Cell(heap[combined_df], heap[combined_df].rows[1], ColOverallRank) = 1
    /\ Cell(heap[combined_df], heap[combined_df].rows[2], ColPlayer) = <<"A">>
    /\ Cell(heap[combined_df], heap[combined_df].rows[2], ColOverallRank) = 2

\* C15: filtering, ranking, league labelling and combination do not change
\* the tables they read: the normalized table of every source processed is,
\* after filter_and_analyze and after the combination, the table it was
\* when filter_and_analyze was called, without a Rank or Overall_Rank column.
C15_SourcesNotMutated ==
    /\ \A n \in 1..Len(sources) :
          /\ heap[sources[n].df_ref] = sources[n].normalized
          /\ ~HasCol(heap[sources[n].df_ref], ColRank)
          /\ ~HasCol(heap[sources[n].df_ref], ColOverallRank)
    /\ (pc \in {"process", "combined", "done", "crashed"} /\ sidebar.use_preloaded_data)
          => heap[1] = load_preloaded_data(file, other).frame

\* an upload whose filtered table got Rank, the slot's League and a place
\* in the combined table
C15_Witness ==
    /\ pc = "combined"
    /\ Len(sources) = 1
    /\ sources[1].name = leagues[4]
    /\ uploaded_files[1].lines = FileComp
    /\ HasCol(heap[sources[1].filtered_ref], ColRank)
    /\ Cell(heap[sources[1].filtered_ref], heap[sources[1].filtered_ref].rows[1], ColLeague)
          = leagues[4]
    /\ Cell(heap[sources[1].df_ref], heap[sources[1].df_ref].rows[1], ColLeague)
          = <<"es La Liga">>
    /\ HasCol(heap[combined_df], ColOverallRank)

====
